---- MODULE Spec2Model ----
(***************************************************************************)
(* Model of scraper.py: the Bayesian scoring views of make_database, the   *)
(* per-hole ranking loop of write_hole_worksheet and the rank-advancement  *)
(* solver get_chars_to_rank_up.                                            *)
(*                                                                         *)
(* Real-valued quantities (M, Sb, new_score, target_score) are exact       *)
(* rationals <<numerator, denominator>>; math.isclose is computed with its *)
(* default relative tolerance on those rationals.                          *)
(***************************************************************************)
EXTENDS Integers, Sequences, FiniteSets, TLC

\* ---------------------------------------------------------------- bounds
MaxStrokes == 3
MaxSolutions == 4
HoleOrder == <<"h1", "h2">>
Holes == {HoleOrder[i] : i \in DOMAIN HoleOrder}
UserOrder == <<"u1", "u2">>
Users == {UserOrder[i] : i \in DOMAIN UserOrder}
LangOrder == <<"l1", "l2">>
Langs == {LangOrder[i] : i \in DOMAIN LangOrder}

\* ------------------------------------------------------ program constants
ScoreScale == 1000
RelTolInv == 1000000000

VARIABLES solutions, pc, holes_done, hole, results, index, last_rank,
          score_for_rank, sheet, last_call

vars == <<solutions, pc, holes_done, hole, results, index, last_rank,
          score_for_rank, sheet, last_call>>

\* ------------------------------------------------------- real arithmetic
Abs(x) == IF x < 0 THEN -x ELSE x

Max(a, b) == IF a < b THEN b ELSE a

Min(a, b) == IF a < b THEN a ELSE b

RECURSIVE GCD(_, _)
GCD(a, b) == IF b = 0 THEN a ELSE GCD(b, a % b)

Rat(n, d) ==
    LET g == GCD(Abs(n), Abs(d))
        sg == IF d < 0 THEN -1 ELSE 1
    IN  <<(sg * n) \div g, (sg * d) \div g>>

R(i) == <<i, 1>>

RatAdd(a, b) == Rat(a[1] * b[2] + b[1] * a[2], a[2] * b[2])

RatSub(a, b) == Rat(a[1] * b[2] - b[1] * a[2], a[2] * b[2])

RatMul(a, b) == Rat(a[1] * b[1], a[2] * b[2])

RatDiv(a, b) == Rat(a[1] * b[2], a[2] * b[1])

RatLt(a, b) == a[1] * b[2] < b[1] * a[2]

RatLe(a, b) == a[1] * b[2] <= b[1] * a[2]

\* math.isclose(a, b): abs(a - b) <= rel_tol * max(abs(a), abs(b)), rel_tol = 1e-09
isclose(a, b) ==
    LET x == a[1] * b[2]
        y == b[1] * a[2]
    IN  Abs(x - y) <= Max(Abs(x), Abs(y)) \div RelTolInv

floor(num) == num[1] \div num[2]

ceil(num) == -((-num[1]) \div num[2])

\* Faulty variant: rounds up whatever the fraction.
floor_with_tolerance_ceil(num) == ceil(num)

\* Faulty variant: one below the floor.
floor_with_tolerance_below(num) == floor(num) - 1

floor_with_tolerance(num) ==
    IF isclose(num, R(ceil(num))) THEN ceil(num) ELSE floor(num)

\* ------------------------------------------------- make_database: views
Keys == Holes \X Users \X Langs

\* The solutions table holding the rows of table, one per primary key.
TableOf(f) ==
    {[hole |-> k[1], user |-> k[2], lang |-> k[3], strokes |-> f[k]] :
        k \in {q \in Keys : f[q] > 0}}

\* The table does not depend on how users and languages are named (names
\* are only compared for equality), so one table stands for all its
\* renamings: the one whose users, and whose languages, come in descending
\* order of their strokes (read user by user, hole by hole, language by
\* language).
LexGe(a, b) ==
    \/ a = b
    \/ \E k \in DOMAIN a : a[k] > b[k] /\ \A j \in 1..(k - 1) : a[j] = b[j]

UserProfile(f, u) ==
    [p \in 1..(Len(HoleOrder) * Len(LangOrder)) |->
        f[<<HoleOrder[((p - 1) \div Len(LangOrder)) + 1], UserOrder[u],
            LangOrder[((p - 1) % Len(LangOrder)) + 1]>>]]

LangProfile(f, l) ==
    [p \in 1..(Len(UserOrder) * Len(HoleOrder)) |->
        f[<<HoleOrder[((p - 1) % Len(HoleOrder)) + 1],
            UserOrder[((p - 1) \div Len(HoleOrder)) + 1], LangOrder[l]>>]]

UpToRenaming(f) ==
    /\ \A u \in 1..(Len(UserOrder) - 1) : LexGe(UserProfile(f, u), UserProfile(f, u + 1))
    /\ \A l \in 1..(Len(LangOrder) - 1) : LexGe(LangProfile(f, l), LangProfile(f, l + 1))

MinOf(S) == CHOOSE c \in S : \A d \in S : c <= d

MaxOf(S) == CHOOSE c \in S : \A d \in S : d <= c

NLang(l) == Cardinality({x \in solutions : x.lang = l})

Nmax == MaxOf({NLang(l) : l \in {x.lang : x \in solutions}})

\* view m_values: 2.0 * NLang / Nmax + 1
m_values(l) == RatAdd(RatDiv(RatMul(R(2), R(NLang(l))), R(Nmax)), R(1))

\* view bayesian, column N
LangHoleN(l, h) == Cardinality({x \in solutions : x.lang = l /\ x.hole = h})

\* view bayesian, column S
LangHoleS(l, h) == MinOf({x.strokes : x \in {y \in solutions : y.lang = l /\ y.hole = h}})

\* view bayesian, column Sa
HoleSa(h) == MinOf({x.strokes : x \in {y \in solutions : y.hole = h}})

\* Faulty variant: (M / N + M) for (M / (N + M)).
Sb_unbracketed(N, M, S, Sa) ==
    RatAdd(RatMul(RatDiv(R(N), RatAdd(R(N), M)), R(S)),
           RatMul(RatAdd(RatDiv(M, R(N)), M), R(Sa)))

\* view bayesian, column Sb: (N / (N + M)) * S + (M / (N + M)) * Sa
Sb(N, M, S, Sa) ==
    RatAdd(RatMul(RatDiv(R(N), RatAdd(R(N), M)), R(S)),
           RatMul(RatDiv(M, RatAdd(R(N), M)), R(Sa)))

\* view scores, column new_score: 1000 * Sb / strokes
new_score_of(sb, strokes) == RatDiv(RatMul(R(ScoreScale), sb), R(strokes))

\* One row of view bayesian.
bayesian_row(l, h) ==
    LET N == LangHoleN(l, h)
        M == m_values(l)
        S == LangHoleS(l, h)
        Sa == HoleSa(h)
    IN  [lang |-> l, hole |-> h, N |-> N, M |-> M, S |-> S, Sa |-> Sa,
         Sb |-> Sb(N, M, S, Sa)]

bayesian == {bayesian_row(k[1], k[2]) : k \in {<<x.lang, x.hole>> : x \in solutions}}

\* view scores restricted to one hole (SELECT ... FROM scores WHERE hole = ?)
scores(h) ==
    LET bay == {bayesian_row(l, h) : l \in {x.lang : x \in {y \in solutions : y.hole = h}}}
    IN  {[user |-> x.user, lang |-> x.lang, N |-> b.N, M |-> b.M, S |-> b.S,
          Sa |-> b.Sa, Sb |-> b.Sb, strokes |-> x.strokes,
          new_score |-> new_score_of(b.Sb, x.strokes)] :
            <<x, b>> \in {<<y, c>> \in {z \in solutions : z.hole = h} \X bay :
                            c.lang = y.lang}}

\* Faulty variant: ORDER BY new_score, ascending.
FirstRows_ascending(S) == {x \in S : \A y \in S : RatLe(x.new_score, y.new_score)}

\* ORDER BY new_score DESC: the rows that may come first.  Rows of equal
\* score are ordered by their submitted timestamp, which is any order.
FirstRows(S) == {x \in S : \A y \in S : RatLe(y.new_score, x.new_score)}

RECURSIVE OrderedResults(_)
OrderedResults(S) ==
    IF S = {} THEN {<<>>}
    ELSE UNION {{<<x>> \o t : t \in OrderedResults(S \ {x})} : x \in FirstRows(S)}

\* ------------------------------------------------ get_chars_to_rank_up
\* Faulty variant: looks at new_rank - 1 only, without walking down.
FindTargetRank_no_walk(target_rank, ranks) ==
    IF target_rank \in ranks THEN target_rank ELSE 0

\* while True: assert target_rank > 0; stop at the first key of
\* score_for_rank at or below target_rank.  0 stands for the failed assert.
RECURSIVE FindTargetRank(_, _)
FindTargetRank(target_rank, ranks) ==
    IF ~(target_rank > 0) THEN 0
    ELSE IF target_rank \in ranks THEN target_rank
    ELSE FindTargetRank(target_rank - 1, ranks)

\* Faulty variant: 1000 * m for 1000 * n.
RecordDenominator_swapped(target_score, n, m) ==
    RatSub(RatMul(target_score, RatAdd(R(n), m)), RatMul(R(ScoreScale), m))

\* target_score * (n + m) - 1000 * n
RecordDenominator(target_score, n, m) ==
    RatSub(RatMul(target_score, RatAdd(R(n), m)), RatMul(R(ScoreScale), R(n)))

\* 1000 * sa * m / (target_score * (n + m) - 1000 * n)
RecordHolderCost(target_score, n, m, sa) ==
    RatDiv(RatMul(RatMul(R(ScoreScale), R(sa)), m),
           RecordDenominator(target_score, n, m))

\* Faulty variant: Sb truncated to an integer before the division.
OtherCost_truncated(sb, target_score) ==
    RatDiv(RatMul(R(ScoreScale), R(floor(sb))), target_score)

\* 1000 * sb / target_score
OtherCost(sb, target_score) == RatDiv(RatMul(R(ScoreScale), sb), target_score)

\* next_sb = (n / (n + m)) * min(s, to_rank_up) + (m / (n + m)) * min(sa, to_rank_up)
\* next_score = 1000 * next_sb / to_rank_up
NextScore(n, m, sa, s, to_rank_up) ==
    new_score_of(Sb(n, m, Min(s, to_rank_up), Min(sa, to_rank_up)), to_rank_up)

NoRat == <<0, 1>>

\* The outcome of one call: the line the call left at (323 the return, any
\* other the statement that raised), with the locals computed up to there.
Outcome(a, status, line, target_rank, target_score, denom, to_rank_up, next_score) ==
    [chars |-> a.chars, new_rank |-> a.new_rank, score_for_rank |-> a.score_for_rank,
     n |-> a.n, m |-> a.m, sa |-> a.sa, s |-> a.s, sb |-> a.sb,
     status |-> status, line |-> line, target_rank |-> target_rank,
     target_score |-> target_score, denom |-> denom,
     to_rank_up |-> to_rank_up, next_score |-> next_score]

Args(chars, new_rank, sfr, n, m, sa, s, sb) ==
    [chars |-> chars, new_rank |-> new_rank, score_for_rank |-> sfr,
     n |-> n, m |-> m, sa |-> sa, s |-> s, sb |-> sb]

NoCall ==
    Outcome(Args(0, 0, <<>>, 0, NoRat, 0, 0, NoRat), "none", 0, 0, NoRat, NoRat, 0, NoRat)

Pending(a) == Outcome(a, "pending", 299, 0, NoRat, NoRat, 0, NoRat)

get_chars_to_rank_up(a) ==
    LET target_rank == FindTargetRank(a.new_rank - 1, DOMAIN a.score_for_rank)
    IN
    IF target_rank = 0
    THEN Outcome(a, "AssertionError", 305, 0, NoRat, NoRat, 0, NoRat)
    ELSE
    LET target_score == a.score_for_rank[target_rank]
        denom == RecordDenominator(target_score, a.n, a.m)
    IN
    IF ~(a.chars > a.sa)
    THEN Outcome(a, "AssertionError", 312, target_rank, target_score, NoRat, 0, NoRat)
    ELSE IF a.chars = a.s /\ denom[1] = 0
    THEN Outcome(a, "ZeroDivisionError", 315, target_rank, target_score, denom, 0, NoRat)
    ELSE IF a.chars # a.s /\ target_score[1] = 0
    THEN Outcome(a, "ZeroDivisionError", 317, target_rank, target_score, NoRat, 0, NoRat)
    ELSE
    LET to_rank_up ==
            IF a.chars = a.s
            THEN floor_with_tolerance(RecordHolderCost(target_score, a.n, a.m, a.sa))
            ELSE floor_with_tolerance(OtherCost(a.sb, target_score))
        d == IF a.chars = a.s THEN denom ELSE NoRat
    IN
    IF to_rank_up = 0
    THEN Outcome(a, "ZeroDivisionError", 321, target_rank, target_score, d, to_rank_up, NoRat)
    ELSE
    LET next_score == NextScore(a.n, a.m, a.sa, a.s, to_rank_up)
    IN
    IF RatLt(target_score, next_score) \/ isclose(next_score, target_score)
    THEN Outcome(a, "ok", 323, target_rank, target_score, d, to_rank_up, next_score)
    ELSE Outcome(a, "AssertionError", 322, target_rank, target_score, d, to_rank_up, next_score)

\* ------------------------------------------------ write_hole_worksheet
\* Faulty variant: ties are not detected.
NewRank_no_tie(idx, lr, sfr, score) == idx + 1

\* Faulty variant: dense ranking, the next integer after a tie.
NewRank_dense(idx, lr, sfr, score) ==
    IF lr # 0 /\ isclose(score, sfr[lr]) THEN lr ELSE lr + 1

\* new_rank = index + 1, or last_rank when the score is close to the score
\* recorded for last_rank (last_rank = 0 stands for None).
NewRank(idx, lr, sfr, score) ==
    IF lr # 0 /\ isclose(score, sfr[lr]) THEN lr ELSE idx + 1

SetScore(sfr, rank, score) ==
    [r \in (DOMAIN sfr) \cup {rank} |-> IF r = rank THEN score ELSE sfr[r]]

HolesOf == {x.hole : x \in solutions}

\* for hole in sorted(holes): the next hole not yet written.
NextHole ==
    LET left == {i \in DOMAIN HoleOrder :
                    HoleOrder[i] \in HolesOf /\ HoleOrder[i] \notin holes_done}
    IN  IF left = {} THEN "" ELSE HoleOrder[MinOf(left)]

Init ==
    /\ \E f \in [Keys -> 0..MaxStrokes] :
          /\ Cardinality({k \in Keys : f[k] > 0}) <= MaxSolutions
          /\ UpToRenaming(f)
          /\ solutions = TableOf(f)
    /\ pc = "make_spreadsheet"
    /\ holes_done = {}
    /\ hole = ""
    /\ results = <<>>
    /\ index = 0
    /\ last_rank = 0
    /\ score_for_rank = <<>>
    /\ sheet = <<>>
    /\ last_call = NoCall

\* write_hole_worksheet up to its loop: the query and the loop's locals.
BeginHole ==
    /\ pc = "make_spreadsheet"
    /\ NextHole # ""
    /\ hole' = NextHole
    /\ results' \in OrderedResults(scores(NextHole))
    /\ index' = 0
    /\ last_rank' = 0
    /\ score_for_rank' = <<>>
    /\ sheet' = <<>>
    /\ pc' = "rows"
    /\ UNCHANGED <<solutions, holes_done, last_call>>

\* One iteration of the loop over results.
WriteRow ==
    /\ pc = "rows"
    /\ index < Len(results)
    /\ LET item == results[index + 1]
           new_rank == NewRank(index, last_rank, score_for_rank, item.new_score)
           sfr == SetScore(score_for_rank, new_rank, item.new_score)
           call == IF new_rank > 1
                   THEN get_chars_to_rank_up(
                            Args(item.strokes, new_rank, sfr, item.N, item.M,
                                 item.Sa, item.S, item.Sb))
                   ELSE NoCall
       IN  /\ last_rank' = new_rank
           /\ score_for_rank' = sfr
           /\ last_call' = IF new_rank > 1 THEN call ELSE last_call
           /\ IF call.status \in {"none", "ok"}
              THEN /\ sheet' = Append(sheet, [item |-> item, new_rank |-> new_rank,
                                              to_rank_up |-> call.to_rank_up])
                   /\ index' = index + 1
                   /\ pc' = pc
              ELSE /\ pc' = "raised"
                   /\ UNCHANGED <<sheet, index>>
    /\ UNCHANGED <<solutions, holes_done, hole, results>>

\* The loop is over: make_spreadsheet goes on to the next hole.
EndHole ==
    /\ pc = "rows"
    /\ index = Len(results)
    /\ holes_done' = holes_done \cup {hole}
    /\ pc' = "make_spreadsheet"
    /\ UNCHANGED <<solutions, hole, results, index, last_rank, score_for_rank,
                   sheet, last_call>>

\* Every hole is written: workbook.close().
Finish ==
    /\ pc = "make_spreadsheet"
    /\ NextHole = ""
    /\ pc' = "done"
    /\ UNCHANGED <<solutions, holes_done, hole, results, index, last_rank,
                   score_for_rank, sheet, last_call>>

Next == BeginHole \/ WriteRow \/ EndHole \/ Finish

Spec == Init /\ [][Next]_vars

\* ------------------------------ get_chars_to_rank_up called on its own
MaxTargetStep == 10

\* The values m_values can give a language: 2 * NLang / Nmax + 1, NLang <= Nmax.
MValues ==
    {RatAdd(RatDiv(RatMul(R(2), R(k)), R(x)), R(1)) :
        <<k, x>> \in {<<i, j>> \in (1..MaxSolutions) \X (1..MaxSolutions) : i <= j}}

\* Scores on the 0..1000 scale, in steps of 1000 / MaxTargetStep.
TargetScores == {Rat(ScoreScale * k, MaxTargetStep) : k \in 1..MaxTargetStep}

SolverInit ==
    /\ \E chars \in 1..MaxStrokes, s \in 1..MaxStrokes, sa \in 1..MaxStrokes,
          n \in 1..MaxSolutions, m \in MValues, target_score \in TargetScores :
          /\ sa <= s
          /\ s <= chars
          /\ last_call = Pending(Args(chars, 2, <<target_score>>, n, m, sa, s,
                                      Sb(n, m, s, sa)))
    /\ solutions = {}
    /\ pc = "direct"
    /\ holes_done = {}
    /\ hole = ""
    /\ results = <<>>
    /\ index = 0
    /\ last_rank = 0
    /\ score_for_rank = <<>>
    /\ sheet = <<>>

SolverCall ==
    /\ pc = "direct"
    /\ last_call.status = "pending"
    /\ last_call' = get_chars_to_rank_up(
                        Args(last_call.chars, last_call.new_rank,
                             last_call.score_for_rank, last_call.n, last_call.m,
                             last_call.sa, last_call.s, last_call.sb))
    /\ pc' = "returned"
    /\ UNCHANGED <<solutions, holes_done, hole, results, index, last_rank,
                   score_for_rank, sheet>>

SolverNext == SolverCall

SolverSpec == SolverInit /\ [][SolverNext]_vars

\* ------------------------------------------------------------- properties
Called(c) == c.status \notin {"none", "pending"}

Rk(i) == sheet[i].new_rank

Sc(i) == sheet[i].item.new_score

\* The score of a call's entry at cost x with the language minimum S
\* replaced by min(S, x) in the blend.
ScoreAt(c, x) == new_score_of(Sb(c.n, c.m, Min(c.s, x), c.sa), x)

\* C1: on a per-hole leaderboard every solver call (rank > 1) gets through
\* its self-check: the score recomputed at to_rank_up, with S replaced by
\* min(S, to_rank_up), is at least the target score (or close to it), for a
\* language record-holder and for any other entry alike.
C1_SelfCheckPasses ==
    Called(last_call) =>
        /\ last_call.line \notin {321, 322}
        /\ last_call.line = 323 =>
              \/ RatLe(last_call.target_score, ScoreAt(last_call, last_call.to_rank_up))
              \/ isclose(ScoreAt(last_call, last_call.to_rank_up), last_call.target_score)

C1_Witness ==
    \E i, j \in DOMAIN sheet :
        /\ Rk(i) > 1 /\ sheet[i].item.strokes = sheet[i].item.S
        /\ Rk(j) > 1 /\ sheet[j].item.strokes # sheet[j].item.S
        /\ last_call.status = "ok"
        /\ last_call.to_rank_up = sheet[Len(sheet)].to_rank_up

\* C2: along the rows of a worksheet the first rank is 1; a row whose score
\* is close to its predecessor's (the score recorded for the preceding rank)
\* has the predecessor's rank and any other row a strictly greater one; the
\* ranks skipped between two consecutive distinct ranks number at most the
\* rows tied at the lower rank, minus one.
C2_RankCompactor ==
    /\ Len(sheet) >= 1 => Rk(1) = 1
    /\ \A i \in 2..Len(sheet) :
          /\ isclose(Sc(i), Sc(i - 1)) => Rk(i) = Rk(i - 1)
          /\ ~isclose(Sc(i), Sc(i - 1)) => Rk(i) > Rk(i - 1)
          /\ Rk(i) >= Rk(i - 1)
          /\ Rk(i) > Rk(i - 1) =>
                Rk(i) - Rk(i - 1) - 1
                    <= Cardinality({j \in DOMAIN sheet : Rk(j) = Rk(i - 1)}) - 1

C2_Witness ==
    \E i, j \in DOMAIN sheet :
        /\ 1 < i /\ i < j
        /\ Rk(i) = Rk(i - 1)
        /\ Rk(j) > Rk(i) + 1

\* The number of score levels among the rows written so far.
Levels == Cardinality({i \in DOMAIN sheet : i = 1 \/ ~isclose(Sc(i), Sc(i - 1))})

\* The first row of the run of close scores that row i ends.
GroupStart(i) ==
    MinOf({j \in 1..i : \A k \in (j + 1)..i : isclose(Sc(k), Sc(k - 1))})

C4_BlendBetween ==
    (pc = "make_spreadsheet" /\ holes_done = {}) =>
    \A b \in bayesian :
        /\ b.N >= 1
        /\ b.Sa <= b.S
        /\ RatLe(R(b.Sa), b.Sb)
        /\ RatLe(b.Sb, R(b.S))
        /\ b.S = b.Sa => b.Sb = R(b.Sa)

C4_Witness ==
    /\ pc = "make_spreadsheet" /\ holes_done = {}
    /\ \E b \in bayesian : RatLt(R(b.Sa), b.Sb) /\ RatLt(b.Sb, R(b.S))
    /\ \E b \in bayesian : b.S = b.Sa /\ b.N > 1

C7_BaselineRankOne ==
    /\ \A i \in DOMAIN sheet :
          sheet[i].item.strokes = sheet[i].item.Sa =>
              /\ Rk(i) = 1
              /\ Sc(i) = R(ScoreScale)
    /\ Called(last_call) => last_call.chars > last_call.sa /\ last_call.line # 312

C7_Witness ==
    /\ Len(sheet) >= 3
    /\ sheet[1].item.strokes = sheet[1].item.Sa
    /\ sheet[2].item.strokes = sheet[2].item.Sa
    /\ Rk(3) > 1
    /\ last_call.status = "ok"

\* C8: rank 1 is in score_for_rank once a row is ranked; a call's search
\* ends on the largest key of score_for_rank below new_rank, which is >= 1
\* and holds a score strictly above the entry's own: the assert on
\* target_rank > 0 never fails.
C8_TargetRankFound ==
    /\ (pc = "rows" /\ index >= 1) => 1 \in DOMAIN score_for_rank
    /\ Called(last_call) =>
          /\ last_call.line # 305
          /\ last_call.target_rank >= 1
          /\ last_call.target_rank < last_call.new_rank
          /\ last_call.target_rank \in DOMAIN last_call.score_for_rank
          /\ \A r \in DOMAIN last_call.score_for_rank :
                r < last_call.new_rank => r <= last_call.target_rank
          /\ RatLt(new_score_of(last_call.sb, last_call.chars),
                   last_call.score_for_rank[last_call.target_rank])

C8_Witness ==
    /\ last_call.status = "ok"
    /\ last_call.new_rank >= 3
    /\ last_call.target_rank < last_call.new_rank - 1
    /\ last_call.target_rank > 1

\* C9: for an entry above its language's minimum (chars > s) the computed
\* to_rank_up is never below s.
C9_StaysAboveRecord ==
    (Called(last_call) /\ last_call.line >= 321 /\ last_call.chars > last_call.s) =>
        last_call.to_rank_up >= last_call.s

C9_Witness ==
    /\ last_call.status = "ok"
    /\ last_call.chars > last_call.s
    /\ last_call.s > last_call.sa
    /\ last_call.to_rank_up = last_call.s

\* C10: in every call the record-holder denominator is strictly positive,
\* no division fails, and Sa <= to_rank_up < chars.
C10_GenuineTarget ==
    Called(last_call) =>
        /\ last_call.line \notin {315, 317}
        /\ (last_call.chars = last_call.s /\ last_call.line >= 315) =>
              RatLt(R(0), last_call.denom)
        /\ last_call.line >= 321 =>
              /\ last_call.sa <= last_call.to_rank_up
              /\ last_call.to_rank_up < last_call.chars

C10_Witness ==
    /\ last_call.status = "ok"
    /\ last_call.chars = last_call.s
    /\ last_call.sa <= last_call.to_rank_up
    /\ last_call.n > 1
    /\ last_call.to_rank_up < last_call.chars

====
